---------------------------- MODULE Spec2Model ----------------------------
(***************************************************************************)
(* Model of the PERLA CAN driver's scheduled-message registry              *)
(* (CAN/Src/can_driver.c) and of the error handler layered on top of it    *)
(* (Error_Corrutines/Src/error_handler.c).                                 *)
(*                                                                         *)
(* One registry (struct CAN_scheduledMsgList) and one error-handler handle *)
(* (ERROR_HANDLER_HandleTypeDef) are modelled, as in Demo/demo_usage.c.    *)
(* Every C function is a pure operator from the state it reads to the      *)
(* state it leaves; every action applies one whole call.                   *)
(*                                                                         *)
(* Execution contexts: the application runs in the "main" context; an      *)
(* interrupt handler ("isr") may call the same API between two main-       *)
(* context calls.  haltNode() never returns: the context that called       *)
(* stop/stopEx stays in its while(1) loop, which only calls CAN_process.   *)
(* Error_Handler() is the application's fatal handler (declared in main.h, *)
(* not part of the sources).  The driver does not return after calling it  *)
(* (can_driver.c:65-72), so what follows the call depends on the build:    *)
(* either Error_Handler() does not return and the system stops where it is *)
(* called, or it returns and the caller carries on with the next line.     *)
(***************************************************************************)
EXTENDS Integers, Sequences, FiniteSets, TLC

(* ------------------------------------------------------------------ *)
(* Program constants                                                   *)
(* ------------------------------------------------------------------ *)
CAN_MAX_MSG == 32
ERROR_FRAME_DLC == 8
ERROR_SPECIFIC_DATA_SIZE == 5
HEARTBEAT_ERROR_CODE == 65535
HEARTBEAT_INTERVAL == 1000
ERROR_INTERVAL == 300
ERROR_SEVERITY_SAFE_STATE == 0
ERROR_SEVERITY_ERROR == 1
ERROR_SEVERITY_WARNING == 2
ERROR_SEVERITY_INFO == 3

\* uint32_t arithmetic (HAL_GetTick, lastTick, periodMs).  The counter wraps
\* as in the source, but it is modelled TickBits wide instead of 32: TLC's
\* integers end at 2^31 - 1.
TickBits == 16
U32(x) == x % (2 ^ TickBits)

(* ------------------------------------------------------------------ *)
(* Bounds of the model                                                 *)
(* ------------------------------------------------------------------ *)
\* messages of its own the application registers before ERROR_HANDLER_init
MaxRegistry == 1
\* registry size up to which CAN_addScheduledMessage is called in SpecRegistry
MaxEntries == 3
\* the millisecond counter is advanced MaxSteps times
MaxSteps == 1
\* longest diagnostic data handed to reportEx/stopEx
MaxDataLen == 6
\* heartbeat periods SpecTiming follows the millisecond counter for
MaxPeriods == 2

(* ------------------------------------------------------------------ *)
(* Inputs                                                              *)
(* ------------------------------------------------------------------ *)
NodeIds == {2}
\* error codes handed to report/stop, and to clear (0 is what init and clear
\* store as the active code)
Codes == {256, 512}
ClearCodes == {0, HEARTBEAT_ERROR_CODE} \cup Codes
\* (errorCode, severity) pairs handed to report/stop: those of demo_usage.c
Conditions == {<<256, ERROR_SEVERITY_WARNING>>, <<512, ERROR_SEVERITY_ERROR>>}
Contexts == {"main", "isr"}
\* identifiers of the application's own scheduled messages
UserIds == {0, 64}
\* milliseconds HAL_GetTick advances while one frame is handed to a mailbox
\* (between line 119 and line 139 of CAN_handleScheduled)
TxLatencies == {0, 1}
\* steps of the millisecond counter between two calls
Deltas == {HEARTBEAT_INTERVAL + 1}

\* diagnostic data (const uint8_t *data, uint8_t dataLen): NullData is the
\* NULL pointer with dataLen 0, as report, stop and triggerSafeState pass it;
\* DataInputs are the buffers of dataLen bytes handed to reportEx and stopEx
NullData == [null |-> TRUE, bytes |-> <<>>, len |-> 0]
DataOf(base, n) == [null |-> FALSE, bytes |-> [i \in 1..n |-> base + i], len |-> n]
DataInputs == {DataOf(16, 2), DataOf(160, MaxDataLen)}

Zeros(n) == [i \in 1..n |-> 0]

\* struct CAN_scheduledMsg as the application hands it to
\* CAN_addScheduledMessage (no payload producer: the frame carries zeros)
UserMsg(ide, id, period) ==
    [IDE |-> ide, StdId |-> IF ide = "STD" THEN id ELSE 0,
     ExtId |-> IF ide = "EXT" THEN id ELSE 0, DLC |-> 2, periodMs |-> period,
     lastTick |-> 0, getData |-> "NULL", context |-> "NULL"]
UserMsgs ==
    {UserMsg(ide, id, ERROR_INTERVAL) : ide \in {"STD", "EXT"}, id \in UserIds}
        \cup {UserMsg("STD", 0, 0)}
\* any header: the identifier field of the other ID space holds any value too
AnyMsgs ==
    [IDE : {"STD", "EXT"}, StdId : UserIds, ExtId : UserIds, DLC : {2},
     periodMs : {ERROR_INTERVAL}, lastTick : {0}, getData : {"NULL"},
     context : {"NULL"}] \cup {UserMsg("STD", 0, 0)}

VARIABLES
    h,          \* ERROR_HANDLER_HandleTypeDef hErrorHandler
    buffer,     \* struct CAN_scheduledMsgList: list[0..size-1] as a sequence
    now,        \* HAL_GetTick()
    loopCtx,    \* the context that is inside haltNode's while(1), or "none"
    fault,      \* Error_Handler() was called and did not return
    errorHandlerReturns,    \* the build's Error_Handler() returns to its caller
    tx,         \* transmit requests made by the latest step (a CAN_process call)
    lastCall,   \* the latest API call (not CAN_process) and its arguments
    prevReport  \* the API call before the latest one, if it was
                \* ERROR_HANDLER_report (NoCall otherwise)

vars == <<h, buffer, now, loopCtx, fault, errorHandlerReturns, tx, lastCall,
          prevReport>>


(* ------------------------------------------------------------------ *)
(* can_driver.c: the scheduled-message registry                        *)
(* ------------------------------------------------------------------ *)

\* IdExists with the extended-ID half of the test forgotten
IdExistsStdOnly(e, msg) == e.IDE = "STD" /\ e.StdId = msg.StdId

\* lines 79-80: the duplicate test of CAN_addScheduledMessage
IdExists(e, msg) ==
    \/ (e.IDE = "STD" /\ e.StdId = msg.StdId)
    \/ (e.IDE = "EXT" /\ e.ExtId = msg.ExtId)

\* lines 98-99: the match test of CAN_removeScheduledMessage
IdMatches(e, id) ==
    \/ (e.IDE = "STD" /\ e.StdId = id)
    \/ (e.IDE = "EXT" /\ e.ExtId = id)

\* HAL_StatusTypeDef CAN_addScheduledMessage(msg, buffer), called at tick t.
\* fatal: Error_Handler() was called and did not return (nothing is stored).
\* When Error_Handler() returns, the function goes on with line 74.  A store
\* into list[CAN_MAX_MSG], outside the array, is not followed further.
CAN_addScheduledMessage(msg, list, t) ==
    IF /\ Len(list) >= CAN_MAX_MSG - 1 \/ msg.periodMs = 0
       /\ ~errorHandlerReturns \/ Len(list) >= CAN_MAX_MSG
    THEN [list |-> list, ret |-> "none", fatal |-> TRUE]
    ELSE LET stamped == [msg EXCEPT !.lastTick = t] IN
         IF \E i \in 1..Len(list) : IdExists(list[i], stamped)
         THEN [list |-> list, ret |-> "HAL_ERROR", fatal |-> FALSE]
         ELSE [list |-> Append(list, stamped), ret |-> "HAL_OK", fatal |-> FALSE]

\* remove that fills the hole with the last entry instead of shifting
RemoveSwapWithLast(id, list) ==
    LET hits == {i \in 1..Len(list) : IdMatches(list[i], id)} IN
    IF hits = {}
    THEN [list |-> list, ret |-> "HAL_ERROR"]
    ELSE LET first == CHOOSE i \in hits : \A j \in hits : i <= j IN
         [list |-> [j \in 1..(Len(list) - 1) |->
                        IF j = first THEN list[Len(list)] ELSE list[j]],
          ret |-> "HAL_OK"]

\* HAL_StatusTypeDef CAN_removeScheduledMessage(id, buffer): the first match
\* is overwritten by shifting every later entry left by one
CAN_removeScheduledMessage(id, list) ==
    LET hits == {i \in 1..Len(list) : IdMatches(list[i], id)} IN
    IF hits = {}
    THEN [list |-> list, ret |-> "HAL_ERROR"]
    ELSE LET first == CHOOSE i \in hits : \A j \in hits : i <= j IN
         [list |-> [j \in 1..(Len(list) - 1) |->
                        IF j < first THEN list[j] ELSE list[j + 1]],
          ret |-> "HAL_OK"]

(* ------------------------------------------------------------------ *)
(* error_handler.c: payload producers                                  *)
(* ------------------------------------------------------------------ *)

\* the flags byte with the severity shifted one bit too far
FlagsByteSeverityAtBit2(halted, severity) == (halted % 2) + ((severity % 8) * 4)

\* data[2]: bit 0 halted, bits 1-3 severity
FlagsByte(halted, severity) == (halted % 2) + ((severity % 8) * 2)

\* static void getData_HeightbeatOK(data, context): 8 bytes
getData_HeightbeatOK(hs) ==
    <<HEARTBEAT_ERROR_CODE % 256, (HEARTBEAT_ERROR_CODE \div 256) % 256,
      FlagsByte(0, ERROR_SEVERITY_INFO)>> \o Zeros(5)

\* getData_Error with the two bytes of the error code in big-endian order
getData_ErrorBigEndian(hs) ==
    <<(hs.activeErrorCode \div 256) % 256, hs.activeErrorCode % 256,
      FlagsByte(hs.isHalted, hs.activeSeverity)>> \o hs.activeSpecificData

\* static void getData_Error(data, context): 8 bytes read from the handle
getData_Error(hs) ==
    <<hs.activeErrorCode % 256, (hs.activeErrorCode \div 256) % 256,
      FlagsByte(hs.isHalted, hs.activeSeverity)>> \o hs.activeSpecificData

\* lines 125-132 of CAN_handleScheduled: data[DLC] zeroed, then the producer
\* (if any) writes into it
ProducePayload(msg, hs) ==
    IF msg.getData = "getData_HeightbeatOK" THEN getData_HeightbeatOK(hs)
    ELSE IF msg.getData = "getData_Error" /\ msg.context # "NULL"
         THEN getData_Error(hs)
    ELSE Zeros(msg.DLC)


(* ------------------------------------------------------------------ *)
(* can_driver.c: the periodic engine                                   *)
(* ------------------------------------------------------------------ *)

\* the header and payload handed to HAL_CAN_AddTxMessage, and its result
TxRequest(msg, data, ok) ==
    [IDE |-> msg.IDE, StdId |-> msg.StdId, ExtId |-> msg.ExtId,
     DLC |-> msg.DLC, data |-> SubSeq(data, 1, msg.DLC),
     getData |-> msg.getData, ok |-> ok]

\* the scan with 'continue' in place of 'return' after a rejected request
RECURSIVE ScanFromNoAbort(_, _, _, _, _)
ScanFromNoAbort(i, st, currentTick, hs, lat) ==
    IF i > Len(st.list) THEN st
    ELSE LET msg == st.list[i] IN
         IF currentTick > U32(msg.lastTick + msg.periodMs)
         THEN LET data == ProducePayload(msg, hs) IN
              IF st.accept = 0
              THEN ScanFromNoAbort(i + 1,
                        [st EXCEPT !.tx = Append(@, TxRequest(msg, data, FALSE))],
                        currentTick, hs, lat)
              ELSE LET t1 == U32(st.t + lat) IN
                   ScanFromNoAbort(i + 1,
                            [list |-> [st.list EXCEPT ![i].lastTick = t1],
                             tx |-> Append(st.tx, TxRequest(msg, data, TRUE)),
                             t |-> t1,
                             accept |-> st.accept - 1],
                            currentTick, hs, lat)
         ELSE ScanFromNoAbort(i + 1, st, currentTick, hs, lat)

\* the for loop of CAN_handleScheduled from index i on.  st.t is HAL_GetTick(),
\* st.accept the number of requests HAL_CAN_AddTxMessage still accepts in this
\* call, lat the time one request takes.
RECURSIVE ScanFrom(_, _, _, _, _)
ScanFrom(i, st, currentTick, hs, lat) ==
    IF i > Len(st.list) THEN st
    ELSE LET msg == st.list[i] IN
         IF currentTick > U32(msg.lastTick + msg.periodMs)
         THEN LET data == ProducePayload(msg, hs) IN
              IF st.accept = 0
              THEN [st EXCEPT !.tx = Append(@, TxRequest(msg, data, FALSE))]
              ELSE LET t1 == U32(st.t + lat) IN
                   ScanFrom(i + 1,
                            [list |-> [st.list EXCEPT ![i].lastTick = t1],
                             tx |-> Append(st.tx, TxRequest(msg, data, TRUE)),
                             t |-> t1,
                             accept |-> st.accept - 1],
                            currentTick, hs, lat)
         ELSE ScanFrom(i + 1, st, currentTick, hs, lat)

\* void CAN_handleScheduled(hcanPtr, buffer), entered at tick t
CAN_handleScheduled(list, hs, t, accept, lat) ==
    ScanFrom(1, [list |-> list, tx |-> <<>>, t |-> t, accept |-> accept],
             t, hs, lat)

(* ------------------------------------------------------------------ *)
(* error_handler.c: the condition reporter                             *)
(* ------------------------------------------------------------------ *)

\* static ERROR_HANDLER_HandleTypeDef hErrorHandler = {0}
ZeroHandle ==
    [phcan |-> "NULL", scheduler |-> "NULL", nodeId |-> 0, errorFrameId |-> 0,
     activeErrorCode |-> 0, activeSeverity |-> 0,
     activeSpecificData |-> Zeros(ERROR_SPECIFIC_DATA_SIZE),
     activeSpecificDataLen |-> 0, isInitialized |-> 0, isHalted |-> 0]

\* struct CAN_scheduledMsg heartbeatMsg of init and clear
HeartbeatMsg(hs) ==
    [IDE |-> "STD", StdId |-> hs.errorFrameId, ExtId |-> 0,
     DLC |-> ERROR_FRAME_DLC, periodMs |-> HEARTBEAT_INTERVAL, lastTick |-> 0,
     getData |-> "getData_HeightbeatOK", context |-> "hehandler"]

\* struct CAN_scheduledMsg errorMsg of reportEx
ErrorMsg(hs) ==
    [IDE |-> "STD", StdId |-> hs.errorFrameId, ExtId |-> 0,
     DLC |-> ERROR_FRAME_DLC, periodMs |-> ERROR_INTERVAL, lastTick |-> 0,
     getData |-> "getData_Error", context |-> "hehandler"]

\* void ERROR_HANDLER_init(hehandler, hcanPtr, nodeIdVal, schedulerPtr), with
\* non-NULL pointers
ERROR_HANDLER_init(hs, list, t, nodeIdVal) ==
    LET h1 == [hs EXCEPT !.phcan = "hcan", !.nodeId = nodeIdVal,
                         !.errorFrameId = nodeIdVal * 32,
                         !.scheduler = "schedulerList", !.isInitialized = 1,
                         !.isHalted = 0, !.activeErrorCode = 0,
                         !.activeSeverity = ERROR_SEVERITY_SAFE_STATE,
                         !.activeSpecificDataLen = 0]
        a == CAN_addScheduledMessage(HeartbeatMsg(h1), list, t)
    IN [h |-> h1, list |-> a.list, fatal |-> a.fatal]

\* lines 123-131 of reportEx: the stored diagnostic bytes
StoreSpecificData(old, d, n) ==
    IF ~d.null /\ n > 0
    THEN [i \in 1..ERROR_SPECIFIC_DATA_SIZE |-> IF i <= n THEN d.bytes[i] ELSE old[i]]
    ELSE Zeros(ERROR_SPECIFIC_DATA_SIZE)

\* reportEx that keeps the more severe (numerically lower) of the stored and
\* the reported severity instead of overwriting it
ReportExKeepsSeverity(hs, list, t, errorCode, severity, d) ==
    IF hs.isInitialized = 0
    THEN [h |-> hs, list |-> list, fatal |-> FALSE]
    ELSE LET n == IF d.len > ERROR_SPECIFIC_DATA_SIZE
                  THEN ERROR_SPECIFIC_DATA_SIZE ELSE d.len
             h1 == [hs EXCEPT !.activeErrorCode = errorCode,
                              !.activeSeverity = IF @ < severity /\ hs.activeErrorCode # 0
                                                 THEN @ ELSE severity,
                              !.activeSpecificDataLen = n,
                              !.activeSpecificData = StoreSpecificData(@, d, n)]
             r == CAN_removeScheduledMessage(h1.errorFrameId, list)
             a == CAN_addScheduledMessage(ErrorMsg(h1), r.list, t)
         IN [h |-> h1, list |-> a.list, fatal |-> a.fatal]

\* void ERROR_HANDLER_reportEx(hehandler, errorCode, severity, data, dataLen)
ERROR_HANDLER_reportEx(hs, list, t, errorCode, severity, d) ==
    IF hs.isInitialized = 0
    THEN [h |-> hs, list |-> list, fatal |-> FALSE]
    ELSE LET n == IF d.len > ERROR_SPECIFIC_DATA_SIZE
                  THEN ERROR_SPECIFIC_DATA_SIZE ELSE d.len
             h1 == [hs EXCEPT !.activeErrorCode = errorCode,
                              !.activeSeverity = severity,
                              !.activeSpecificDataLen = n,
                              !.activeSpecificData = StoreSpecificData(@, d, n)]
             r == CAN_removeScheduledMessage(h1.errorFrameId, list)
             a == CAN_addScheduledMessage(ErrorMsg(h1), r.list, t)
         IN [h |-> h1, list |-> a.list, fatal |-> a.fatal]

\* clear that does not compare errorCode with the active code
ClearAnyCode(hs, list, t, errorCode) ==
    IF hs.isInitialized = 0
    THEN [h |-> hs, list |-> list, fatal |-> FALSE]
    ELSE LET h1 == [hs EXCEPT !.activeErrorCode = 0,
                              !.activeSeverity = ERROR_SEVERITY_INFO,
                              !.activeSpecificData = Zeros(ERROR_SPECIFIC_DATA_SIZE)]
             r == CAN_removeScheduledMessage(h1.errorFrameId, list)
             a == CAN_addScheduledMessage(HeartbeatMsg(h1), r.list, t)
         IN [h |-> h1, list |-> a.list, fatal |-> a.fatal]

\* void ERROR_HANDLER_clear(hehandler, errorCode)
ERROR_HANDLER_clear(hs, list, t, errorCode) ==
    IF hs.isInitialized = 0 \/ hs.activeErrorCode # errorCode
    THEN [h |-> hs, list |-> list, fatal |-> FALSE]
    ELSE LET h1 == [hs EXCEPT !.activeErrorCode = 0,
                              !.activeSeverity = ERROR_SEVERITY_INFO,
                              !.activeSpecificData = Zeros(ERROR_SPECIFIC_DATA_SIZE)]
             r == CAN_removeScheduledMessage(h1.errorFrameId, list)
             a == CAN_addScheduledMessage(HeartbeatMsg(h1), r.list, t)
         IN [h |-> h1, list |-> a.list, fatal |-> a.fatal]

\* static void haltNode(hehandler): the assignment before the while(1)
haltNode(hs) == [hs EXCEPT !.isHalted = 1]


(* ------------------------------------------------------------------ *)
(* State machine                                                       *)
(* ------------------------------------------------------------------ *)

NoCall == [op |-> "none", code |-> 0, sev |-> 0, data |-> NullData, ret |-> "none"]

\* demo_usage.c lines 15-16: both objects are zero-initialized statics
Init ==
    /\ h = ZeroHandle
    /\ buffer = <<>>
    /\ now = 0
    /\ loopCtx = "none"
    /\ fault = FALSE
    /\ errorHandlerReturns \in BOOLEAN
    /\ tx = <<>>
    /\ lastCall = NoCall
    /\ prevReport = NoCall

\* a call can be made from ctx: the system runs, and ctx is not the context
\* (or preempted by the context) that sits in haltNode's loop
CanCall(ctx) ==
    /\ ~fault
    /\ \/ loopCtx = "none"
       \/ (loopCtx = "main" /\ ctx = "isr")

\* some context can make a call
Callable == \E ctx \in Contexts : CanCall(ctx)

Record(op, code, sev, d, ret) ==
    /\ lastCall' = [op |-> op, code |-> code, sev |-> sev, data |-> d, ret |-> ret]
    /\ prevReport' = IF lastCall.op = "report" THEN lastCall ELSE NoCall
    /\ tx' = <<>>
    /\ UNCHANGED errorHandlerReturns

\* HAL_StatusTypeDef CAN_addScheduledMessage(msg, buffer) called by the
\* application
AddScheduledMessage(msg) ==
    /\ Callable
    /\ LET a == CAN_addScheduledMessage(msg, buffer, now) IN
       /\ buffer' = a.list
       /\ fault' = a.fatal
       /\ Record("add", 0, 0, NullData, a.ret)
    /\ UNCHANGED <<h, now, loopCtx>>

\* HAL_StatusTypeDef CAN_removeScheduledMessage(id, buffer) called by the
\* application
RemoveScheduledMessage(id) ==
    /\ Callable
    /\ LET r == CAN_removeScheduledMessage(id, buffer) IN
       /\ buffer' = r.list
       /\ Record("remove", 0, 0, NullData, r.ret)
    /\ UNCHANGED <<h, now, loopCtx, fault>>

HandlerInit(nodeIdVal) ==
    /\ Callable
    /\ LET r == ERROR_HANDLER_init(h, buffer, now, nodeIdVal) IN
       /\ h' = r.h
       /\ buffer' = r.list
       /\ fault' = r.fatal
    /\ Record("init", 0, 0, NullData, "none")
    /\ UNCHANGED <<now, loopCtx>>

\* a call that ends in ERROR_HANDLER_reportEx and returns
Reporting(op, code, sev, d) ==
    /\ Callable
    /\ LET r == ERROR_HANDLER_reportEx(h, buffer, now, code, sev, d) IN
       /\ h' = r.h
       /\ buffer' = r.list
       /\ fault' = r.fatal
    /\ Record(op, code, sev, d, "none")
    /\ UNCHANGED <<now, loopCtx>>

\* void ERROR_HANDLER_report(hehandler, errorCode, severity)
Report(code, sev) == Reporting("report", code, sev, NullData)

\* void ERROR_HANDLER_triggerSafeState(hehandler, reason)
TriggerSafeState(reason) ==
    Reporting("triggerSafeState", reason, ERROR_SEVERITY_SAFE_STATE, NullData)

ReportEx(code, sev, d) == Reporting("reportEx", code, sev, d)

\* void ERROR_HANDLER_stopEx(hehandler, errorCode, severity, data, dataLen):
\* reportEx, then haltNode, whose loop keeps ctx for ever
Stopping(op, ctx, code, sev, d) ==
    /\ CanCall(ctx)
    /\ LET r == ERROR_HANDLER_reportEx(h, buffer, now, code, sev, d) IN
       /\ buffer' = r.list
       /\ fault' = r.fatal
       /\ h' = IF r.fatal THEN r.h ELSE haltNode(r.h)
       /\ loopCtx' = IF r.fatal THEN loopCtx ELSE ctx
    /\ Record(op, code, sev, d, "noreturn")
    /\ UNCHANGED now

\* void ERROR_HANDLER_stop(hehandler, errorCode, severity)
Stop(ctx, code, sev) == Stopping("stop", ctx, code, sev, NullData)

StopEx(ctx, code, sev, d) == Stopping("stopEx", ctx, code, sev, d)

Clear(code) ==
    /\ Callable
    /\ LET r == ERROR_HANDLER_clear(h, buffer, now, code) IN
       /\ h' = r.h
       /\ buffer' = r.list
       /\ fault' = r.fatal
    /\ Record("clear", code, 0, NullData, "none")
    /\ UNCHANGED <<now, loopCtx>>

\* void CAN_process(hcan, scheduler): from the main loop, or from haltNode's
\* loop (lines 290-293) when the handle is bound to a registry
Tick(accept, lat) ==
    /\ ~fault
    /\ loopCtx = "none" \/ (h.scheduler # "NULL" /\ h.phcan # "NULL")
    /\ LET r == CAN_handleScheduled(buffer, h, now, accept, lat) IN
       /\ buffer' = r.list
       /\ tx' = r.tx
       /\ now' = r.t
    /\ UNCHANGED <<h, loopCtx, fault, errorHandlerReturns, lastCall, prevReport>>

\* the SysTick interrupt advances the millisecond counter
AdvanceTime(d) ==
    /\ ~fault
    /\ now + d <= MaxSteps * (HEARTBEAT_INTERVAL + 1)
    /\ now' = U32(now + d)
    /\ tx' = <<>>
    /\ UNCHANGED <<h, buffer, loopCtx, fault, errorHandlerReturns, lastCall,
                   prevReport>>

\* the application sets up the messages of its own before it initializes the
\* error handler
UserAdd(msg) ==
    /\ h.isInitialized = 0
    /\ Len(buffer) < MaxRegistry
    /\ AddScheduledMessage(msg)

UserRemove(id) ==
    /\ h.isInitialized = 0
    /\ RemoveScheduledMessage(id)

\* the error handler on a registry the application has set up, called from the
\* main loop and from interrupt handlers.  A CAN_process call is taken to
\* complete within one millisecond here; SpecRegistry lets it take longer.
Next ==
    \/ \E msg \in UserMsgs : UserAdd(msg)
    \/ \E id \in UserIds : UserRemove(id)
    \/ \E n \in NodeIds : HandlerInit(n)
    \/ \E c \in Conditions : Report(c[1], c[2])
    \/ \E c \in Codes : TriggerSafeState(c)
    \/ \E c \in Conditions, d \in DataInputs : ReportEx(c[1], c[2], d)
    \/ \E ctx \in Contexts, c \in Conditions : Stop(ctx, c[1], c[2])
    \/ \E ctx \in Contexts, c \in Conditions, d \in DataInputs :
            StopEx(ctx, c[1], c[2], d)
    \/ \E c \in ClearCodes : Clear(c)
    \/ \E accept \in 0..Len(buffer) : Tick(accept, 0)
    \/ \E d \in Deltas : AdvanceTime(d)

Spec == Init /\ [][Next]_vars

\* the registry alone: any sequence of add, remove and CAN_process calls
RegistryAdd(msg) ==
    /\ Len(buffer) < MaxEntries
    /\ AddScheduledMessage(msg)

RegistryNext ==
    \/ \E msg \in AnyMsgs : RegistryAdd(msg)
    \/ \E id \in UserIds : RemoveScheduledMessage(id)
    \/ \E accept \in 0..Len(buffer), lat \in TxLatencies : Tick(accept, lat)
    \/ \E d \in Deltas : AdvanceTime(d)

SpecRegistry == Init /\ [][RegistryNext]_vars

\* the periodic engine on the millisecond scale.  HAL_GetTick() has any value
\* when the application sets the registry up: StartTicks are 0 and a value
\* WrapLead milliseconds (two periods of the application's message) before
\* the counter wraps.
WrapLead == 2 * (ERROR_INTERVAL + 1)
StartTicks == {0, (2 ^ TickBits) - WrapLead}

InitTiming ==
    /\ h = ZeroHandle
    /\ buffer = <<>>
    /\ now \in StartTicks
    /\ loopCtx = "none"
    /\ fault = FALSE
    /\ errorHandlerReturns \in BOOLEAN
    /\ tx = <<>>
    /\ lastCall = NoCall
    /\ prevReport = NoCall

\* the message the application schedules in SpecTiming
TimingMsgs == {UserMsg("STD", 0, ERROR_INTERVAL)}

\* the millisecond counter is followed to the instants around which the due
\* test of line 123 changes its result for some entry: lastTick + periodMs
\* and one millisecond after it
DueDeltas(list, t) ==
    {U32(list[i].lastTick + list[i].periodMs + k + (2 ^ TickBits) - t) :
        i \in 1..Len(list), k \in {0, 1}} \cap 1..(HEARTBEAT_INTERVAL + 1)

\* milliseconds since the earliest of the StartTicks
SinceStart(t) == U32(t + WrapLead)

\* the SysTick interrupt advances the millisecond counter between two calls
TimePasses(d) ==
    /\ ~fault
    /\ SinceStart(now) + d <= WrapLead + MaxPeriods * (HEARTBEAT_INTERVAL + 1)
    /\ now' = U32(now + d)
    /\ UNCHANGED <<h, buffer, loopCtx, fault, errorHandlerReturns, tx, lastCall,
                   prevReport>>

TimingNext ==
    \/ \E msg \in TimingMsgs : AddScheduledMessage(msg)
    \/ \E n \in NodeIds : HandlerInit(n)
    \/ \E accept \in 0..Len(buffer) : Tick(accept, 0)
    \/ \E d \in DueDeltas(buffer, now) : TimePasses(d)

SpecTiming == InitTiming /\ [][TimingNext]_vars

\* the main loop of demo_usage.c for ever: every iteration calls CAN_process
\* some milliseconds after the one before, every transmit is accepted, and
\* report and clear calls are made between the iterations.  The iterations
\* are less than ERROR_INTERVAL apart; the counter wraps.
LoopDeltas == {256}

\* one iteration of the loop: HAL_GetTick of line 119 has advanced by d
LoopTick(d) ==
    /\ ~fault
    /\ loopCtx = "none"
    /\ LET r == CAN_handleScheduled(buffer, h, U32(now + d), Len(buffer), 0) IN
       /\ buffer' = r.list
       /\ tx' = r.tx
       /\ now' = r.t
    /\ UNCHANGED <<h, loopCtx, fault, errorHandlerReturns, lastCall, prevReport>>

FirstInit(nodeIdVal) ==
    /\ h.isInitialized = 0
    /\ HandlerInit(nodeIdVal)

LoopCall(ctx) ==
    /\ h.isInitialized = 1
    /\ CanCall(ctx)

LoopNext ==
    \/ \E n \in NodeIds : FirstInit(n)
    \/ \E c \in Conditions : LoopCall("main") /\ Report(c[1], c[2])
    \/ \E c \in ClearCodes : LoopCall("main") /\ Clear(c)
    \/ \E d \in LoopDeltas : LoopTick(d)

\* the loop never stops iterating
SpecLoop ==
    /\ Init
    /\ [][LoopNext]_vars
    /\ WF_vars(\E d \in LoopDeltas : LoopTick(d))

\* CAN_process in the main loop, preempted once by an interrupt handler that
\* calls report or clear.  The places of one iteration of the scan (lines
\* 122-139) at which the handler can run:
\*   beforeTest  msg points at slot i, the due test is still to come
\*   afterTest   the due test has passed, data[] is not yet declared
\*   afterData   the payload producer has filled data[]
\*   afterSend   HAL_CAN_AddTxMessage has returned HAL_OK
PreemptPoints == {"beforeTest", "afterTest", "afterData", "afterSend"}

IsrCalls ==
    {[op |-> "report", code |-> c[1], sev |-> c[2]] : c \in Conditions}
        \cup {[op |-> "clear", code |-> c, sev |-> 0] : c \in ClearCodes}

IsrCall(call, hs, list, t) ==
    IF call.op = "report"
    THEN ERROR_HANDLER_reportEx(hs, list, t, call.code, call.sev, NullData)
    ELSE ERROR_HANDLER_clear(hs, list, t, call.code)

\* what lies behind data[] on the stack when HAL_CAN_AddTxMessage reads more
\* bytes than data[] was declared with
StackBytes == {0, 255}

PaddedTo(data, n, g) ==
    [k \in 1..(IF n > Len(data) THEN n ELSE Len(data)) |->
        IF k <= Len(data) THEN data[k] ELSE g]

\* CAN_handleScheduled entered at tick t with every transmit accepted, the
\* handler running at point of the iteration at slot i.  msg keeps pointing
\* at slot i, whose content the handler's remove and add replace.
PreemptedScan(list, hs, t, i, point, call, g) ==
    LET pre == ScanFrom(1, [list |-> SubSeq(list, 1, i - 1), tx |-> <<>>,
                            t |-> t, accept |-> Len(list)], t, hs, 0)
        before == pre.list \o SubSeq(list, i, Len(list))
        old == before[i]
        m == IsrCall(call, hs, before, t)
        new == m.list[i]
        stamped == [m.list EXCEPT ![i].lastTick = t]
        Rest(l, reqs, from) ==
            ScanFrom(from, [list |-> l, tx |-> reqs, t |-> t,
                            accept |-> Len(list)], t, m.h, 0)
        s == CASE point = "beforeTest" -> Rest(m.list, pre.tx, i)
               [] point = "afterTest" ->
                    Rest(stamped,
                         Append(pre.tx,
                                TxRequest(new, ProducePayload(new, m.h), TRUE)),
                         i + 1)
               [] point = "afterData" ->
                    Rest(stamped,
                         Append(pre.tx,
                                [TxRequest(new,
                                           PaddedTo(ProducePayload(old, hs),
                                                    new.DLC, g),
                                           TRUE)
                                    EXCEPT !.getData = old.getData]),
                         i + 1)
               [] point = "afterSend" ->
                    Rest(stamped,
                         Append(pre.tx,
                                TxRequest(old, ProducePayload(old, hs), TRUE)),
                         i + 1)
    IN [h |-> m.h, list |-> s.list, tx |-> s.tx, fatal |-> m.fatal,
        due |-> t > U32(old.lastTick + old.periodMs),
        inRange |-> i <= Len(m.list)]

PreemptedTick(i, point, call, g) ==
    /\ ~fault
    /\ loopCtx = "none"
    /\ h.isInitialized = 1
    /\ i \in 1..Len(buffer)
    /\ LET r == PreemptedScan(buffer, h, now, i, point, call, g) IN
       /\ r.inRange
       /\ point # "beforeTest" => r.due
       /\ h' = r.h
       /\ buffer' = r.list
       /\ tx' = r.tx
       /\ fault' = r.fatal
    /\ lastCall' = [op |-> call.op, code |-> call.code, sev |-> call.sev,
                    data |-> NullData, ret |-> "none"]
    /\ prevReport' = IF lastCall.op = "report" THEN lastCall ELSE NoCall
    /\ UNCHANGED <<now, loopCtx, errorHandlerReturns>>

PreemptNext ==
    \/ \E msg \in TimingMsgs : RegistryAdd(msg)
    \/ \E n \in NodeIds : FirstInit(n)
    \/ \E c \in Conditions : LoopCall("main") /\ Report(c[1], c[2])
    \/ \E c \in ClearCodes : LoopCall("main") /\ Clear(c)
    \/ Tick(Len(buffer), 0)
    \/ \E d \in Deltas : AdvanceTime(d)
    \/ \E i \in 1..Len(buffer), point \in PreemptPoints, call \in IsrCalls,
          g \in StackBytes : PreemptedTick(i, point, call, g)

SpecPreempt == Init /\ [][PreemptNext]_vars

\* the payload producers alone, on every handle the reporter can hold: any
\* stored code, severity, halted flag and diagnostic bytes
PayloadCodes == {0, 1, 255, 256, 57005, HEARTBEAT_ERROR_CODE}
Severities == {ERROR_SEVERITY_SAFE_STATE, ERROR_SEVERITY_ERROR,
               ERROR_SEVERITY_WARNING, ERROR_SEVERITY_INFO}
PayloadData == {Zeros(ERROR_SPECIFIC_DATA_SIZE), <<1, 2, 3, 4, 5>>,
                <<255, 0, 128, 0, 255>>}

InitPayload ==
    /\ \E n \in NodeIds, c \in PayloadCodes, s \in Severities, hl \in {0, 1},
          d \in PayloadData :
          h = [ZeroHandle EXCEPT !.phcan = "hcan", !.scheduler = "schedulerList",
                                 !.nodeId = n, !.errorFrameId = n * 32,
                                 !.isInitialized = 1, !.isHalted = hl,
                                 !.activeErrorCode = c, !.activeSeverity = s,
                                 !.activeSpecificData = d,
                                 !.activeSpecificDataLen = ERROR_SPECIFIC_DATA_SIZE]
    /\ buffer = <<>>
    /\ now = 0
    /\ loopCtx = "none"
    /\ fault = FALSE
    /\ errorHandlerReturns \in BOOLEAN
    /\ tx = <<>>
    /\ lastCall = NoCall
    /\ prevReport = NoCall

\* lines 125-134 of CAN_handleScheduled for one entry: the producer fills the
\* zeroed buffer and the frame is handed to HAL_CAN_AddTxMessage
Produce(msg) ==
    /\ tx' = <<TxRequest(msg, ProducePayload(msg, h), TRUE)>>
    /\ UNCHANGED <<h, buffer, now, loopCtx, fault, errorHandlerReturns, lastCall,
                   prevReport>>

ProduceError == Produce(ErrorMsg(h))

ProduceHeartbeat == Produce(HeartbeatMsg(h))

PayloadNext == ProduceError \/ ProduceHeartbeat

SpecPayload == InitPayload /\ [][PayloadNext]_vars


(* ------------------------------------------------------------------ *)
(* Vocabulary of the properties                                        *)
(* ------------------------------------------------------------------ *)

\* the identifier of an entry or frame in its own ID space
Identifier(e) == IF e.IDE = "STD" THEN e.StdId ELSE e.ExtId

\* positions of the registry entries with the standard identifier frameId
ManagedAt(list, frameId) ==
    {i \in 1..Len(list) : list[i].IDE = "STD" /\ list[i].StdId = frameId}

\* the accepted frames of the latest CAN_process call sent at frameId
FramesAt(frameId) ==
    {i \in 1..Len(tx) : tx[i].ok /\ tx[i].IDE = "STD" /\ tx[i].StdId = frameId}

\* the accepted frames among the requests reqs sent at frameId
FramesIn(reqs, frameId) ==
    {i \in 1..Len(reqs) :
        reqs[i].ok /\ reqs[i].IDE = "STD" /\ reqs[i].StdId = frameId}

\* the 8-byte wire format: code little-endian, flags, 5 diagnostic bytes
Payload(code, halted, sev, data) ==
    <<code % 256, code \div 256, halted + 2 * sev>> \o data

\* the first min(dataLen, 5) supplied bytes followed by zeros
Padded(d) ==
    [i \in 1..ERROR_SPECIFIC_DATA_SIZE |->
        IF ~d.null /\ i <= d.len THEN d.bytes[i] ELSE 0]

(* ------------------------------------------------------------------ *)
(* C1 (SpecRegistry)                                                   *)
(* ------------------------------------------------------------------ *)

NoDuplicateIds ==
    \A i, j \in 1..Len(buffer) :
        (i # j /\ buffer[i].IDE = buffer[j].IDE)
            => Identifier(buffer[i]) # Identifier(buffer[j])

DuplicateAddChangesNothing ==
    \A msg \in AnyMsgs :
        (lastCall'.ret = "HAL_ERROR" /\ RegistryAdd(msg)) => buffer' = buffer

\* C1: after any sequence of CAN_addScheduledMessage and
\* CAN_removeScheduledMessage calls no two registry entries have the same
\* identifier in the same ID space, and an add that returns HAL_ERROR
\* (duplicate) leaves the size and every entry of the registry unchanged.
C1_UniqueIds == [](NoDuplicateIds) /\ [][DuplicateAddChangesNothing]_vars

\* a duplicate add was just rejected on a registry that holds the same
\* identifier value once in each ID space
C1_Witness ==
    /\ lastCall.op = "add" /\ lastCall.ret = "HAL_ERROR"
    /\ \E i, j \in 1..Len(buffer) :
          /\ buffer[i].IDE = "STD" /\ buffer[j].IDE = "EXT"
          /\ Identifier(buffer[i]) = Identifier(buffer[j])

(* ------------------------------------------------------------------ *)
(* C2 (Spec)                                                           *)
(* ------------------------------------------------------------------ *)

\* C2: after init and any sequence of report, reportEx, triggerSafeState and
\* clear calls, the registry possibly holding other entries too, the registry
\* holds exactly one entry whose identifier is frameId = nodeId << 5.
C2_ExactlyOneManagedEntry ==
    (/\ h.isInitialized = 1
     /\ ~fault
     /\ lastCall.op \in {"init", "report", "reportEx", "triggerSafeState", "clear"})
        => (/\ h.errorFrameId = h.nodeId * 32
            /\ Cardinality(ManagedAt(buffer, h.errorFrameId)) = 1)

(* ------------------------------------------------------------------ *)
(* C3 (Spec)                                                           *)
(* ------------------------------------------------------------------ *)

\* C3: after report(c1, s1) followed by report(c2, s2), the active state is
\* code c2, severity s2 and zero diagnostic bytes, and every frame a following
\* CAN_process call sends at frameId carries the payload of c2 and s2 with zero
\* diagnostic bytes: nothing of the first report is left.
C3_SecondReportWins ==
    (/\ h.isInitialized = 1
     /\ lastCall.op = "report"
     /\ prevReport.op = "report")
        => (/\ h.activeErrorCode = lastCall.code
            /\ h.activeSeverity = lastCall.sev
            /\ h.activeSpecificData = Zeros(ERROR_SPECIFIC_DATA_SIZE)
            /\ \A i \in FramesAt(h.errorFrameId) :
                  tx[i].data = Payload(lastCall.code, h.isHalted, lastCall.sev,
                                       Zeros(ERROR_SPECIFIC_DATA_SIZE)))

\* two reports of different code and severity, then a CAN_process call that
\* sent the error frame
C3_Witness ==
    /\ h.isInitialized = 1
    /\ lastCall.op = "report" /\ prevReport.op = "report"
    /\ prevReport.code # lastCall.code /\ prevReport.sev # lastCall.sev
    /\ \E i \in FramesAt(h.errorFrameId) : tx[i].getData = "getData_Error"

(* ------------------------------------------------------------------ *)
(* C4 (Spec)                                                           *)
(* ------------------------------------------------------------------ *)

\* a condition is being reported: the entry at frameId is the error entry
IsReporting ==
    \E i \in ManagedAt(buffer, h.errorFrameId) : buffer[i].getData = "getData_Error"

\* C4: clear(code) while a condition with that active code is being reported
\* makes the entry at frameId the heartbeat entry with period
\* HEARTBEAT_INTERVAL and makes the stored active code 0xFFFF.
C4_ClearRestoresHeartbeat ==
    [][\A c \in ClearCodes :
          (Clear(c) /\ h.isInitialized = 1 /\ h.activeErrorCode = c /\ IsReporting)
              => (/\ h'.activeErrorCode = HEARTBEAT_ERROR_CODE
                  /\ \E i \in ManagedAt(buffer', h.errorFrameId) :
                        /\ buffer'[i].getData = "getData_HeightbeatOK"
                        /\ buffer'[i].periodMs = HEARTBEAT_INTERVAL)]_vars

(* ------------------------------------------------------------------ *)
(* C5 (Spec)                                                           *)
(* ------------------------------------------------------------------ *)

\* C5: clear(code) while the active code is another code changes nothing:
\* not the active code, severity or diagnostic data, and not the registry
\* (entries, their periods, producers, lastTick and order).
C5_ClearOtherCodeIsNoOp ==
    [][\A c \in ClearCodes :
          (h.activeErrorCode # c /\ lastCall'.op = "clear" /\ Clear(c))
              => (h' = h /\ buffer' = buffer)]_vars

\* clear was just called with another code than the one being reported
C5_Witness ==
    /\ h.isInitialized = 1
    /\ lastCall.op = "clear"
    /\ h.activeErrorCode # 0 /\ lastCall.code # h.activeErrorCode
    /\ lastCall.code # 0
    /\ IsReporting

(* ------------------------------------------------------------------ *)
(* C6 (Spec)                                                           *)
(* ------------------------------------------------------------------ *)

\* a step that is a report, reportEx, triggerSafeState or clear call
ReportOrClearCall ==
    \/ \E c \in Conditions : Report(c[1], c[2])
    \/ \E c \in Codes : TriggerSafeState(c)
    \/ \E c \in Conditions, d \in DataInputs : ReportEx(c[1], c[2], d)
    \/ \E c \in ClearCodes : Clear(c)

\* the registry entries with the standard identifier frameId, in order
EntriesAt(list, frameId) ==
    LET AtFrameId(e) == e.IDE = "STD" /\ e.StdId = frameId
    IN SelectSeq(list, AtFrameId)

\* C6: once the reporter is halted, a report, reportEx, triggerSafeState or
\* clear call from any execution context changes neither the active code,
\* severity and diagnostic data nor the registry entry at frameId.
C6_HaltedCallsAreNoOps ==
    [][(h.isHalted = 1 /\ ReportOrClearCall)
          => (/\ h'.activeErrorCode = h.activeErrorCode
              /\ h'.activeSeverity = h.activeSeverity
              /\ h'.activeSpecificData = h.activeSpecificData
              /\ EntriesAt(buffer', h.errorFrameId)
                    = EntriesAt(buffer, h.errorFrameId))]_vars

(* ------------------------------------------------------------------ *)
(* C7 (Spec)                                                           *)
(* ------------------------------------------------------------------ *)

\* C7: the halted flag is monotonic: no step of any operation (init, report,
\* clear, stop, CAN_process) takes isHalted from 1 back to 0.
C7_HaltedIsMonotonic == [][h.isHalted = 1 => h'.isHalted = 1]_vars

(* ------------------------------------------------------------------ *)
(* C8 (Spec)                                                           *)
(* ------------------------------------------------------------------ *)

\* C8 (its safety part): after stop(code, severity) or stopEx on an
\* initialized reporter, every frame a CAN_process call sends at frameId
\* carries the stopped code and severity with the halted bit set.
C8_StoppedFramesCarryStop ==
    (/\ lastCall.op \in {"stop", "stopEx"}
     /\ h.isInitialized = 1
     /\ ~fault)
        => \A i \in FramesAt(h.errorFrameId) :
              SubSeq(tx[i].data, 1, 3)
                  = <<lastCall.code % 256, lastCall.code \div 256,
                      1 + 2 * lastCall.sev>>

(* ------------------------------------------------------------------ *)
(* C9 (Spec)                                                           *)
(* ------------------------------------------------------------------ *)

\* a step that is a stop or stopEx call
StopCall ==
    \/ \E ctx \in Contexts, c \in Conditions : Stop(ctx, c[1], c[2])
    \/ \E ctx \in Contexts, c \in Conditions, d \in DataInputs :
            StopEx(ctx, c[1], c[2], d)

\* C9: a report, reportEx, triggerSafeState, stop, stopEx or clear call on a
\* reporter that is not initialized changes no reporter field (isHalted stays
\* 0) and no registry entry, and returns to its caller.
C9_UninitializedCallsAreNoOps ==
    [][(h.isInitialized = 0 /\ (ReportOrClearCall \/ StopCall))
          => (/\ h' = h
              /\ buffer' = buffer
              /\ loopCtx' = loopCtx
              /\ lastCall'.ret # "noreturn")]_vars

(* ------------------------------------------------------------------ *)
(* C10 (Spec)                                                          *)
(* ------------------------------------------------------------------ *)

\* C10: in every error frame, bytes 3..7 are the first min(dataLen, 5)
\* diagnostic bytes of the most recent report, reportEx, triggerSafeState,
\* stop or stopEx call followed by zeros, whatever data earlier reports
\* supplied.
C10_DiagnosticBytesOfLatestReport ==
    (lastCall.op \in {"report", "reportEx", "triggerSafeState", "stop", "stopEx"})
        => \A i \in FramesAt(h.errorFrameId) :
              tx[i].getData = "getData_Error"
                  => SubSeq(tx[i].data, 4, ERROR_FRAME_DLC) = Padded(lastCall.data)

(* ------------------------------------------------------------------ *)
(* C11 (SpecTiming)                                                    *)
(* ------------------------------------------------------------------ *)

\* ERROR_HANDLER_init(nodeId 2) was the latest call and it registered the
\* heartbeat entry at tick 0
InitAtZero ==
    /\ lastCall.op = "init"
    /\ h.isInitialized = 1 /\ h.nodeId = 2
    /\ \E i \in ManagedAt(buffer, h.errorFrameId) :
          buffer[i].getData = "getData_HeightbeatOK" /\ buffer[i].lastTick = 0

\* a CAN_process call entered at tick t, every transmit accepted, sends one
\* frame with identifier 64 and this payload
OneHeartbeatFrame(t, payload) ==
    \A accept \in 0..Len(buffer) :
        (Tick(accept, 0) /\ InitAtZero /\ now = t /\ accept = Len(buffer))
            => (/\ h.errorFrameId = 64
                /\ Cardinality(FramesIn(tx', 64)) = 1
                /\ \A i \in FramesIn(tx', 64) : tx'[i].data = payload)

\* C11 as stated: after init with nodeId 2 at time 0, frameId is 64 and a
\* CAN_process call at now = 1000 transmits one frame with identifier 64 and
\* payload FF FF 08 00 00 00 00 00.
C11_HeartbeatAt1000 ==
    [][OneHeartbeatFrame(HEARTBEAT_INTERVAL, <<255, 255, 8, 0, 0, 0, 0, 0>>)]_vars

\* C11 amended: after init with nodeId 2 at time 0, frameId is 64 and a
\* CAN_process call at now = 1001 transmits one frame with identifier 64 and
\* payload FF FF 06 00 00 00 00 00 (code 0xFFFF, severity INFO in bits 1-3,
\* halted 0, zero diagnostic data).
C11_HeartbeatAt1001 ==
    [][OneHeartbeatFrame(HEARTBEAT_INTERVAL + 1, <<255, 255, 6, 0, 0, 0, 0, 0>>)]_vars

\* the heartbeat frame was just sent at tick 1001, init being the latest call
C11_Witness ==
    /\ lastCall.op = "init" /\ h.nodeId = 2
    /\ now = HEARTBEAT_INTERVAL + 1
    /\ Cardinality(FramesIn(tx, 64)) = 1
    /\ \E i \in ManagedAt(buffer, 64) : buffer[i].lastTick = now

(* ------------------------------------------------------------------ *)
(* C12 (SpecTiming)                                                    *)
(* ------------------------------------------------------------------ *)

\* C12: a CAN_process call transmits no frame when now < lastTick + periodMs
\* for every registry entry, the sum taken as a number: also when it exceeds
\* the largest value of the millisecond counter.
C12_NoFrameBeforeDue ==
    [][\A accept \in 0..Len(buffer) :
          (/\ Tick(accept, 0)
           /\ \A i \in 1..Len(buffer) :
                 now < buffer[i].lastTick + buffer[i].periodMs)
              => \A k \in 1..Len(tx') : ~tx'[k].ok]_vars

(* ------------------------------------------------------------------ *)
(* C13 (SpecTiming)                                                    *)
(* ------------------------------------------------------------------ *)

\* the requests among reqs made for the registry entry e
RequestsFor(reqs, e) ==
    {k \in 1..Len(reqs) :
        reqs[k].IDE = e.IDE /\ Identifier(reqs[k]) = Identifier(e)}

\* entry i was transmitted successfully by the latest CAN_process call, which
\* refreshed its lastTick
JustSent(i) == \E k \in RequestsFor(tx, buffer[i]) : tx[k].ok

\* C13: the due test is strict: after an entry was transmitted successfully
\* and its lastTick refreshed to T, a CAN_process call at now = T + periodMs
\* does not transmit it, and one at now = T + periodMs + 1 does when the
\* transmits are accepted.
C13_StrictDueTest ==
    [][\A accept \in 0..Len(buffer) :
          Tick(accept, 0) =>
              \A i \in 1..Len(buffer) :
                  JustSent(i) =>
                      LET T == buffer[i].lastTick
                          P == buffer[i].periodMs
                      IN /\ now = U32(T + P)
                            => RequestsFor(tx', buffer[i]) = {}
                         /\ (now = U32(T + P + 1) /\ accept = Len(buffer))
                            => \E k \in RequestsFor(tx', buffer[i]) : tx'[k].ok]_vars

(* ------------------------------------------------------------------ *)
(* C14 (SpecRegistry)                                                  *)
(* ------------------------------------------------------------------ *)

\* the positions of the registry entries a request req was made for
EntriesOf(list, req) ==
    {i \in 1..Len(list) :
        list[i].IDE = req.IDE /\ Identifier(list[i]) = Identifier(req)}

\* C14: within one CAN_process call a rejected transmit request is the last
\* request of the call: no request is made (and so no payload producer is
\* invoked) for a later entry, and the lastTick of the rejected entry and of
\* every later entry is left unchanged.
C14_RejectionStopsScan ==
    [][\A k \in 1..Len(tx') :
          (~tx'[k].ok /\ \E accept \in 0..Len(buffer), lat \in TxLatencies :
                             Tick(accept, lat))
              => /\ k = Len(tx')
                 /\ \A i \in EntriesOf(buffer, tx'[k]) :
                       \A j \in i..Len(buffer) :
                           /\ buffer'[j] = buffer[j]
                           /\ j > i => RequestsFor(tx', buffer[j]) = {}]_vars

\* a CAN_process call sent one frame, had the next request rejected and left
\* a later entry that is due untouched
C14_Witness ==
    /\ Len(tx) >= 2
    /\ tx[1].ok /\ ~tx[Len(tx)].ok
    /\ \E i \in EntriesOf(buffer, tx[Len(tx)]) :
          \E j \in (i + 1)..Len(buffer) :
              now > U32(buffer[j].lastTick + buffer[j].periodMs)

(* ------------------------------------------------------------------ *)
(* C15 (SpecTiming)                                                    *)
(* ------------------------------------------------------------------ *)

\* the transmit of entry i was rejected by the latest CAN_process call
JustRejected(i) == \E k \in RequestsFor(tx, buffer[i]) : ~tx[k].ok

\* C15: an entry whose transmit was rejected in a CAN_process call is retried
\* by the next call: the next call, when its transmits are accepted, finds the
\* entry still due and makes a transmit request for it.
C15_RejectedIsRetried ==
    [][\A accept \in 0..Len(buffer) :
          (Tick(accept, 0) /\ accept = Len(buffer)) =>
              \A i \in 1..Len(buffer) :
                  JustRejected(i) => RequestsFor(tx', buffer[i]) # {}]_vars

(* ------------------------------------------------------------------ *)
(* C16 (SpecRegistry)                                                  *)
(* ------------------------------------------------------------------ *)

C17_DuplicateOnlyInSameSpace ==
    [][\A msg \in AnyMsgs :
          (lastCall'.ret = "HAL_ERROR" /\ RegistryAdd(msg))
              => \E i \in 1..Len(buffer) :
                    /\ buffer[i].IDE = msg.IDE
                    /\ Identifier(buffer[i]) = Identifier(msg)]_vars

(* ------------------------------------------------------------------ *)
(* C18 (SpecRegistry)                                                  *)
(* ------------------------------------------------------------------ *)

\* the positions of the entries whose identifier is id
PositionsOf(list, id) == {p \in 1..Len(list) : Identifier(list[p]) = id}

\* C18: CAN_removeScheduledMessage(id) with an entry of identifier id in the
\* registry returns HAL_OK, removes one such entry and nothing else, moves
\* every later entry one place to the left unchanged and in order, and
\* decrements the size by one; with no such entry it returns HAL_ERROR and
\* leaves the size and every entry unchanged.
C18_RemoveShiftsLeft ==
    [][\A id \in UserIds :
          (lastCall'.op = "remove" /\ RemoveScheduledMessage(id)) =>
              IF PositionsOf(buffer, id) = {}
              THEN lastCall'.ret = "HAL_ERROR" /\ buffer' = buffer
              ELSE /\ lastCall'.ret = "HAL_OK"
                   /\ Len(buffer') = Len(buffer) - 1
                   /\ \E p \in PositionsOf(buffer, id) :
                         /\ \A j \in 1..(p - 1) : buffer'[j] = buffer[j]
                         /\ \A j \in p..(Len(buffer) - 1) :
                               buffer'[j] = buffer[j + 1]]_vars

\* a remove has just taken one entry out of a registry of MaxEntries entries
C18_Witness ==
    /\ lastCall.op = "remove" /\ lastCall.ret = "HAL_OK"
    /\ Len(buffer) = MaxEntries - 1


\* what a consumer of the frame reads out of the 8 bytes
DecodeCode(p) == p[1] + 256 * p[2]

DecodeHalted(p) == p[3] % 2

DecodeSeverity(p) == (p[3] \div 2) % 8

DecodeData(p) == SubSeq(p, 4, 3 + ERROR_SPECIFIC_DATA_SIZE)

NoAppEntryAt(list, frameId) ==
    \A i \in ManagedAt(list, frameId) : list[i].context = "hehandler"

\* period and producer of the registry entries at frameId, in order
ManagedShape(list, frameId) ==
    LET es == EntriesAt(list, frameId)
    IN [i \in 1..Len(es) |-> <<es[i].periodMs, es[i].getData>>]

\* a step that is a report, reportEx or triggerSafeState call
ReportCall ==
    \/ \E c \in Conditions : Report(c[1], c[2])
    \/ \E c \in Codes : TriggerSafeState(c)
    \/ \E c \in Conditions, d \in DataInputs : ReportEx(c[1], c[2], d)

\* C20: on a registry where the application holds no entry at frameId, a
\* report or stop call on the initialized reporter leaves exactly the entry
\* with period ERROR_INTERVAL and the error payload producer at frameId, the
\* first init and a clear of the active code leave exactly the entry with
\* period HEARTBEAT_INTERVAL and the heartbeat producer, and a clear of
\* another code, a CAN_process call and the passing of time leave the entry's
\* period and producer as they are: the entry is the error entry exactly
\* when the last effective call was a report or stop.
C20_EntryFollowsCondition ==
    [][(/\ h'.isInitialized = 1
        /\ ~fault'
        /\ NoAppEntryAt(buffer, h'.errorFrameId))
          => /\ (/\ lastCall'.op \in {"report", "reportEx", "triggerSafeState",
                                      "stop", "stopEx"}
                 /\ h.isInitialized = 1
                 /\ ReportCall \/ StopCall)
                    => ManagedShape(buffer', h'.errorFrameId)
                          = <<(<<ERROR_INTERVAL, "getData_Error">>)>>
             /\ (\/ /\ lastCall'.op = "init"
                    /\ h.isInitialized = 0
                    /\ \E n \in NodeIds : HandlerInit(n)
                 \/ /\ lastCall'.op = "clear"
                    /\ h.isInitialized = 1
                    /\ Clear(h.activeErrorCode))
                    => ManagedShape(buffer', h'.errorFrameId)
                          = <<(<<HEARTBEAT_INTERVAL, "getData_HeightbeatOK">>)>>
             /\ (\/ /\ lastCall'.op = "clear"
                    /\ h.isInitialized = 1
                    /\ \E c \in ClearCodes \ {h.activeErrorCode} : Clear(c)
                 \/ lastCall' = lastCall /\ h' = h)
                    => ManagedShape(buffer', h'.errorFrameId)
                          = ManagedShape(buffer, h.errorFrameId)]_vars


(* ------------------------------------------------------------------ *)
(* C21 (Spec)                                                          *)
(* ------------------------------------------------------------------ *)

\* the registry entries other than the standard-ID entry at frameId, in order
OtherEntries(list, frameId) ==
    LET NotAtFrameId(e) == ~(e.IDE = "STD" /\ e.StdId = frameId)
    IN SelectSeq(list, NotAtFrameId)

\* C21: a report, reportEx, triggerSafeState or clear call on the initialized
\* reporter changes only the reporter's own entry: every registry entry other
\* than the standard-ID entry at frameId, an extended-ID entry with ExtId =
\* frameId included, is still present after the call with the same contents,
\* the same lastTick and the same order among these entries.
C21_OnlyOwnEntryChanges ==
    [][(/\ h.isInitialized = 1
        /\ lastCall'.op \in {"report", "reportEx", "triggerSafeState", "clear"}
        /\ ReportOrClearCall)
          => OtherEntries(buffer', h.errorFrameId)
                = OtherEntries(buffer, h.errorFrameId)]_vars


(* ------------------------------------------------------------------ *)
(* C22 (Spec)                                                          *)
(* ------------------------------------------------------------------ *)

\* no condition is active: the latest reporter call was init or a clear that
\* left no active code, and the entry at frameId is the heartbeat entry
NoConditionActive ==
    /\ h.isInitialized = 1
    /\ lastCall.op \in {"init", "clear"}
    /\ h.activeErrorCode = 0
    /\ ManagedShape(buffer, h.errorFrameId)
          = <<(<<HEARTBEAT_INTERVAL, "getData_HeightbeatOK">>)>>

\* C22: while no condition is active (right after init or after a matching
\* clear), clear(code) for any code, 0 and 0xFFFF included, changes neither
\* the reporter state nor the registry: the heartbeat entry keeps its
\* lastTick and its position.
C22_ClearInNormalIsNoOp ==
    [][\A c \in ClearCodes :
          (NoConditionActive /\ lastCall'.op = "clear" /\ Clear(c))
              => (h' = h /\ buffer' = buffer)]_vars


(* ------------------------------------------------------------------ *)
(* C23 (SpecLoop)                                                      *)
(* ------------------------------------------------------------------ *)

\* C23: the node never goes silent: with CAN_process called again and again
\* at advancing ticks and every transmit accepted, after any report a frame
\* at frameId is eventually transmitted, whatever report and clear calls
\* follow.
C23_NeverSilent ==
    [](lastCall.op = "report" => <>(FramesAt(h.errorFrameId) # {}))


(* ------------------------------------------------------------------ *)
(* C24 (SpecPreempt)                                                   *)
(* ------------------------------------------------------------------ *)

\* the frame the engine sends for the registry entry e while the reporter's
\* handle is hs
FrameOf(e, hs) == TxRequest(e, ProducePayload(e, hs), TRUE)

\* C24: with report or clear running in an interrupt handler at any point of
\* the scan of CAN_process, every frame the call transmits carries the
\* identifier, length and payload of one and the same registry entry (of the
\* registry before or after the call), and an application entry whose
\* lastTick the call refreshed was transmitted by it.
C24_PreemptedTickIsConsistent ==
    [][tx' # <<>> =>
          /\ \A k \in 1..Len(tx') :
                \/ \E j \in 1..Len(buffer), hs \in {h, h'} :
                      tx'[k] = FrameOf(buffer[j], hs)
                \/ \E j \in 1..Len(buffer'), hs \in {h, h'} :
                      tx'[k] = FrameOf(buffer'[j], hs)
          /\ \A j \in 1..Len(buffer), j2 \in 1..Len(buffer') :
                (/\ buffer[j].context = "NULL"
                 /\ [buffer'[j2] EXCEPT !.lastTick = buffer[j].lastTick]
                       = buffer[j]
                 /\ buffer'[j2].lastTick # buffer[j].lastTick)
                    => RequestsFor(tx', buffer[j]) # {}]_vars

=============================================================================
